---- MODULE Spec2Model ----
(***************************************************************************)
(* Product store service: the Product entity (service/models.py), its      *)
(* (de)serialization contract, and the REST handlers (service/routes.py)   *)
(* with the error handlers of service/common/error_handlers.py.            *)
(*                                                                         *)
(* JSON / Python values are tagged records so that values of different     *)
(* Python types can be stored in the same field and compared.              *)
(***************************************************************************)
EXTENDS Integers, Sequences, FiniteSets, TLC

\* store, nextId: the product table and its id sequence; session: the
\* session of the request being served; last: the last call and its answer;
\* reqs: the PUT requests served step by step, each with its own session
VARIABLES store, nextId, session, last, reqs

vars == <<store, nextId, session, last, reqs>>

(***************************************************************************)
(* Bounds                                                                  *)
(***************************************************************************)
\* number of ids the store's sequence hands out in a run
MaxProducts == 2

(***************************************************************************)
(* Python / JSON values                                                    *)
(***************************************************************************)
None == [t |-> "null", s |-> "", n |-> 0, b |-> FALSE]
JStr(x) == [t |-> "str", s |-> x, n |-> 0, b |-> FALSE]
JNum(x) == [t |-> "num", s |-> "", n |-> x, b |-> FALSE]
JBool(x) == [t |-> "bool", s |-> "", n |-> 0, b |-> x]
\* a member of the Category enum, held by its member name
JEnum(x) == [t |-> "enum", s |-> x, n |-> 0, b |-> FALSE]

\* the empty mapping {}
EmptyMap == [k \in {} |-> None]

\* a request body after request.get_json(): a dict, or some other JSON value
Dict(m) == [isdict |-> TRUE, m |-> m, v |-> None]
NotDict(v) == [isdict |-> FALSE, m |-> EmptyMap, v |-> v]

\* d with key k removed
DelKey(d, k) == [x \in (DOMAIN d) \ {k} |-> d[x]]
\* d with d[k] = v (k added when absent)
SetKey(d, k, v) == [x \in (DOMAIN d) \cup {k} |-> IF x = k THEN v ELSE d[x]]

(***************************************************************************)
(* class Category(Enum)                                                    *)
(***************************************************************************)
CategoryNames == {"ELECTRONICS", "CLOTHING", "FOOD", "BOOKS", "OTHER"}

\* Category.<NAME>.value
CategoryValue(nm) ==
    CASE nm = "ELECTRONICS" -> "Electronics"
      [] nm = "CLOTHING" -> "Clothing"
      [] nm = "FOOD" -> "Food"
      [] nm = "BOOKS" -> "Books"
      [] nm = "OTHER" -> "Other"

\* str.upper() on the strings that occur as category labels
upper(x) ==
    CASE x \in {"ELECTRONICS", "Electronics", "electronics"} -> "ELECTRONICS"
      [] x \in {"CLOTHING", "Clothing", "clothing"} -> "CLOTHING"
      [] x \in {"FOOD", "Food", "food", "fOOd"} -> "FOOD"
      [] x \in {"BOOKS", "Books", "books"} -> "BOOKS"
      [] x \in {"OTHER", "Other", "other"} -> "OTHER"
      [] x \in {"TOYS", "Toys", "toys"} -> "TOYS"
      [] x = "" -> ""
      [] OTHER -> x

\* the strings float() parses, with the number each denotes
NumericStrings == {"10", "25"}

StrToNum(x) ==
    CASE x = "10" -> 10
      [] x = "25" -> 25

\* float(v): [exc, val]
float(v) ==
    CASE v.t = "num" -> [exc |-> "none", val |-> JNum(v.n)]
      [] v.t = "bool" -> [exc |-> "none", val |-> JNum(IF v.b THEN 1 ELSE 0)]
      [] v.t = "str" -> IF v.s \in NumericStrings
                          THEN [exc |-> "none", val |-> JNum(StrToNum(v.s))]
                          ELSE [exc |-> "ValueError", val |-> None]
      [] OTHER -> [exc |-> "TypeError", val |-> None]

(***************************************************************************)
(* class Product: an instance is a record of its column attributes         *)
(***************************************************************************)
Fields == {"name", "description", "category", "available", "price"}

\* Product(): every attribute unset
Product ==
    [id |-> None, name |-> None, description |-> None, category |-> None,
     available |-> None, price |-> None]

\* Product.serialize
serialize(self) ==
    [id |-> self.id,
     name |-> self.name,
     description |-> self.description,
     category |-> JStr(CategoryValue(self.category.s)),
     available |-> self.available,
     price |-> self.price]

\* result of running statements on an object: the object and the exception
\* that ended them ("none" when they ran to the end)
Ok(obj) == [obj |-> obj, exc |-> "none", arg |-> ""]
Raise(obj, e, a) == [obj |-> obj, exc |-> e, arg |-> a]

\* deserialize taking the id from the body as well
SetName_and_id(self, data) ==
    IF ~data.isdict THEN Raise(self, "TypeError", "not subscriptable")
    ELSE IF "name" \notin DOMAIN data.m THEN Raise(self, "KeyError", "name")
    ELSE IF "id" \in DOMAIN data.m
    THEN Ok([self EXCEPT !.name = data.m["name"], !.id = data.m["id"]])
    ELSE Ok([self EXCEPT !.name = data.m["name"]])

\* self.name = data["name"]
SetName(self, data) ==
    IF ~data.isdict THEN Raise(self, "TypeError", "not subscriptable")
    ELSE IF "name" \notin DOMAIN data.m THEN Raise(self, "KeyError", "name")
    ELSE Ok([self EXCEPT !.name = data.m["name"]])

\* the description defaulting to the value the object already has
SetDescription_keep(self, data) ==
    Ok([self EXCEPT !.description =
            IF "description" \in DOMAIN data.m THEN data.m["description"]
            ELSE self.description])

\* self.description = data.get("description", "")
SetDescription(self, data) ==
    Ok([self EXCEPT !.description =
            IF "description" \in DOMAIN data.m THEN data.m["description"]
            ELSE JStr("")])

\* the category looked up by the label as given, without upper()
SetCategory_as_given(self, data) ==
    IF "category" \notin DOMAIN data.m THEN Raise(self, "KeyError", "category")
    ELSE IF data.m["category"].t # "str"
         THEN Raise(self, "AttributeError", "upper")
    ELSE IF data.m["category"].s \notin CategoryNames
         THEN Raise(self, "KeyError", data.m["category"].s)
    ELSE Ok([self EXCEPT !.category = JEnum(data.m["category"].s)])

\* self.category = Category[data["category"].upper()]
SetCategory(self, data) ==
    IF "category" \notin DOMAIN data.m THEN Raise(self, "KeyError", "category")
    ELSE IF data.m["category"].t # "str"
         THEN Raise(self, "AttributeError", "upper")
    ELSE IF upper(data.m["category"].s) \notin CategoryNames
         THEN Raise(self, "KeyError", upper(data.m["category"].s))
    ELSE Ok([self EXCEPT !.category = JEnum(upper(data.m["category"].s))])

\* self.available = data.get("available", True)
SetAvailable(self, data) ==
    Ok([self EXCEPT !.available =
            IF "available" \in DOMAIN data.m THEN data.m["available"]
            ELSE JBool(TRUE)])

\* self.price = float(data["price"])
SetPrice(self, data) ==
    IF "price" \notin DOMAIN data.m THEN Raise(self, "KeyError", "price")
    ELSE LET f == float(data.m["price"])
         IN IF f.exc # "none" THEN Raise(self, f.exc, data.m["price"].s)
            ELSE Ok([self EXCEPT !.price = f.val])

\* the except clauses of deserialize
Except(r) ==
    CASE r.exc = "KeyError" ->
            Raise(r.obj, "DataValidationError",
                  "Missing key: '" \o r.arg \o "'")
      [] r.exc = "ValueError" ->
            Raise(r.obj, "DataValidationError",
                  "Invalid value: could not convert string to float: '"
                  \o r.arg \o "'")
      [] OTHER -> r

\* Product.deserialize: the object after the call and the exception raised
\* (a statement runs unless an earlier one raised)
deserialize(self, data) ==
    LET r1 == SetName(self, data)
        r2 == IF r1.exc # "none" THEN r1 ELSE SetDescription(r1.obj, data)
        r3 == IF r2.exc # "none" THEN r2 ELSE SetCategory(r2.obj, data)
        r4 == IF r3.exc # "none" THEN r3 ELSE SetAvailable(r3.obj, data)
        r5 == IF r4.exc # "none" THEN r4 ELSE SetPrice(r4.obj, data)
    IN Except(r5)

(***************************************************************************)
(* The database and the SQLAlchemy session (db = SQLAlchemy(app))          *)
(*   store   : the committed rows of table "products", keyed by id         *)
(*   nextId  : the next value of the primary-key sequence                  *)
(*   session : objects added, loaded (identity map, with their current     *)
(*             attribute values) and marked deleted, not yet committed     *)
(***************************************************************************)
EmptyRows == [i \in {} |-> Product]

EmptySession == [new |-> <<>>, identity |-> EmptyRows, deleted |-> {}]

DB == [store |-> store, nextId |-> nextId, session |-> session]

\* db.session.add(obj)
add(D, obj) == [D EXCEPT !.session.new = Append(@, obj)]

\* db.session.delete(obj)
delete_obj(D, id) == [D EXCEPT !.session.deleted = @ \cup {id}]

\* db.session.commit(): flush the pending inserts, updates and deletes
commit(D) ==
    LET s == D.session
        newIds == D.nextId .. (D.nextId + Len(s.new) - 1)
        kept == (DOMAIN D.store) \ s.deleted
    IN [store |-> [i \in kept \cup newIds |->
                     IF i \in newIds
                     THEN [s.new[i - D.nextId + 1] EXCEPT !.id = JNum(i)]
                     ELSE IF i \in DOMAIN s.identity THEN s.identity[i]
                     ELSE D.store[i]],
        nextId |-> D.nextId + Len(s.new),
        session |-> EmptySession]

\* Product.query.get(id): the object of the identity map when the session
\* holds one, else the row loaded from the table, else nothing
query_get(D, id) ==
    IF id \in DOMAIN D.session.identity
    THEN [found |-> TRUE, obj |-> D.session.identity[id], D |-> D]
    ELSE IF id \in DOMAIN D.store
    THEN [found |-> TRUE, obj |-> D.store[id],
          D |-> [D EXCEPT !.session.identity =
                    [i \in (DOMAIN @) \cup {id} |->
                        IF i = id THEN D.store[id] ELSE @[i]]]]
    ELSE [found |-> FALSE, obj |-> Product, D |-> D]

\* an attribute assignment on a loaded object is seen by the session
touch(D, id, obj) == [D EXCEPT !.session.identity[id] = obj]

\* the session is removed when the request's application context ends:
\* whatever was not committed is rolled back
shutdown_session(D) == [D EXCEPT !.session = EmptySession]

\* Product.all
all(D) == {D.store[i] : i \in DOMAIN D.store}

\* Product.find
find(D, id) == query_get(D, id)

(***************************************************************************)
(* Responses and error handlers (service/common/error_handlers.py)         *)
(***************************************************************************)
NoProduct == serialize([Product EXCEPT !.category = JEnum("OTHER")])

NoLocation == [route |-> "", product_id |-> None]

\* url_for("get_products", product_id=..., _external=True)
url_for(route, product_id) == [route |-> route, product_id |-> product_id]

\* a JSON product body
ProductResponse(code, body, loc) ==
    [status |-> code, kind |-> "product", product |-> body, items |-> {},
     error |-> "", message |-> <<>>, location |-> loc]

\* a JSON list of product bodies (held as a set: the order is unspecified)
ListResponse(code, bodies) ==
    [status |-> code, kind |-> "list", product |-> NoProduct,
     items |-> bodies, error |-> "", message |-> <<>>,
     location |-> NoLocation]

\* the envelope {status, error, message} the error handlers build
Envelope(code, label, msg) ==
    [status |-> code, kind |-> "error", product |-> NoProduct, items |-> {},
     error |-> label, message |-> msg, location |-> NoLocation]

bad_request(msg) == Envelope(400, "Bad Request", msg)
not_found(msg) == Envelope(404, "Not Found", <<"404 Not Found:">> \o msg)
mediatype_not_supported(msg) ==
    Envelope(415, "Unsupported media type",
             <<"415 Unsupported Media Type:">> \o msg)
internal_server_error(msg) ==
    Envelope(500, "Internal Server Error", <<"500 Internal Server Error:">> \o msg)

\* request_validation_error: DataValidationError -> bad_request
request_validation_error(arg) == bad_request(<<arg>>)

\* dispatch of an exception that left the view function
handle_exception(r) ==
    IF r.exc = "DataValidationError" THEN request_validation_error(r.arg)
    ELSE internal_server_error(
             <<"The server encountered an internal error">>)

\* f"Product with id '{product_id}' was not found."
NotFoundMessage(product_id) ==
    <<"Product", "with", "id", "'" \o ToString(product_id) \o "'",
      "was", "not", "found", ".">>

(***************************************************************************)
(* Request handlers (service/routes.py).  A handler returns the database   *)
(* and session as it leaves them, the response, and the Product object it  *)
(* worked on.                                                              *)
(***************************************************************************)
NoHeaders == [h \in {} |-> ""]
JsonHeaders == [h \in {"Content-Type"} |-> "application/json"]
TextHeaders == [h \in {"Content-Type"} |-> "plain/text"]
CharsetHeaders == [h \in {"Content-Type"} |-> "application/json; charset=utf-8"]

Result(D, resp, obj) == [D |-> D, resp |-> resp, entity |-> obj]

\* check_content_type comparing the header only when it is present
check_content_type_if_present(headers, content_type) ==
    IF "Content-Type" \in DOMAIN headers
       /\ headers["Content-Type"] # content_type
    THEN FALSE
    ELSE TRUE

\* check_content_type: TRUE when the request is let through
check_content_type(headers, content_type) ==
    IF "Content-Type" \notin DOMAIN headers THEN FALSE
    ELSE IF headers["Content-Type"] # content_type THEN FALSE
    ELSE TRUE

ContentTypeMessage(content_type) == <<"Content-Type must be", content_type>>

\* create_products with the Location built from the sequence's next value
create_products_next_id(D, headers, body) ==
    IF ~check_content_type(headers, "application/json")
    THEN Result(D, mediatype_not_supported(
                       ContentTypeMessage("application/json")), Product)
    ELSE LET r == deserialize(Product, body)
         IN IF r.exc # "none"
            THEN Result(D, handle_exception(r), r.obj)
            ELSE LET D2 == commit(add(D, r.obj))
                     product == D2.store[D2.nextId - 1]
                 IN Result(D2,
                           ProductResponse(201, serialize(product),
                               url_for("get_products", JNum(D2.nextId))),
                           product)

\* POST /products
create_products(D, headers, body) ==
    IF ~check_content_type(headers, "application/json")
    THEN Result(D, mediatype_not_supported(
                       ContentTypeMessage("application/json")), Product)
    ELSE LET r == deserialize(Product, body)
         IN IF r.exc # "none"
            THEN Result(D, handle_exception(r), r.obj)
            ELSE LET D2 == commit(add(D, r.obj))
                     product == D2.store[D2.nextId - 1]
                 IN Result(D2,
                           ProductResponse(201, serialize(product),
                               url_for("get_products", product.id)),
                           product)

\* get_products without the 404 branch
get_products_no_abort(D, product_id) ==
    LET q == query_get(D, product_id)
    IN Result(q.D, ProductResponse(200, serialize(
                  IF q.found THEN q.obj
                  ELSE [Product EXCEPT !.category = JEnum("OTHER")]),
                  NoLocation), q.obj)

\* GET /products/<int:product_id>
get_products(D, product_id) ==
    LET q == query_get(D, product_id)
    IN IF ~q.found
       THEN Result(q.D, not_found(NotFoundMessage(product_id)), Product)
       ELSE Result(q.D, ProductResponse(200, serialize(q.obj), NoLocation),
                   q.obj)

\* update_products committing whether or not deserialize raised
update_products_commit_always(D, product_id, headers, body) ==
    IF ~check_content_type(headers, "application/json")
    THEN Result(D, mediatype_not_supported(
                       ContentTypeMessage("application/json")), Product)
    ELSE LET q == query_get(D, product_id)
         IN IF ~q.found
            THEN Result(q.D, not_found(NotFoundMessage(product_id)), Product)
            ELSE LET r == deserialize(q.obj, body)
                     D2 == commit(touch(q.D, product_id, r.obj))
                 IN IF r.exc # "none"
                    THEN Result(D2, handle_exception(r), r.obj)
                    ELSE Result(D2,
                                ProductResponse(200,
                                    serialize(D2.store[product_id]),
                                    NoLocation),
                                D2.store[product_id])

\* PUT /products/<int:product_id>
update_products(D, product_id, headers, body) ==
    IF ~check_content_type(headers, "application/json")
    THEN Result(D, mediatype_not_supported(
                       ContentTypeMessage("application/json")), Product)
    ELSE LET q == query_get(D, product_id)
         IN IF ~q.found
            THEN Result(q.D, not_found(NotFoundMessage(product_id)), Product)
            ELSE LET r == deserialize(q.obj, body)
                     D1 == touch(q.D, product_id, r.obj)
                 IN IF r.exc # "none"
                    THEN Result(D1, handle_exception(r), r.obj)
                    ELSE LET D2 == commit(D1)
                             product == D2.store[product_id]
                         IN Result(D2,
                                   ProductResponse(200, serialize(product),
                                                   NoLocation),
                                   product)

NoContent ==
    [status |-> 204, kind |-> "empty", product |-> NoProduct, items |-> {},
     error |-> "", message |-> <<>>, location |-> NoLocation]

\* delete_products answering 404 for an id that is not stored
delete_products_abort(D, product_id) ==
    LET q == query_get(D, product_id)
    IN IF q.found
       THEN Result(commit(delete_obj(q.D, product_id)), NoContent, q.obj)
       ELSE Result(q.D, not_found(NotFoundMessage(product_id)), Product)

\* DELETE /products/<int:product_id>
delete_products(D, product_id) ==
    LET q == query_get(D, product_id)
    IN IF q.found
       THEN Result(commit(delete_obj(q.D, product_id)), NoContent, q.obj)
       ELSE Result(q.D, NoContent, Product)

\* create without the commit: the object stays pending
create_no_commit(D, self) == Result(add(D, self), NoContent, self)

\* str.lower() on the strings that occur as values of "available"
lower(x) ==
    CASE x \in {"true", "True", "TRUE"} -> "true"
      [] x \in {"yes", "Yes", "YES"} -> "yes"
      [] x \in {"false", "False", "FALSE"} -> "false"
      [] x \in {"no", "No", "NO"} -> "no"
      [] OTHER -> x

\* request.args.get(key): None when the parameter is absent
args_get(args, key) == IF key \in DOMAIN args THEN args[key] ELSE None

\* truth value of a str or None
Truthy(v) == v.t = "str" /\ v.s # ""

\* query.filter_by(...).all() over the committed rows
filter_by(D, field, value) ==
    {D.store[i] : i \in {j \in DOMAIN D.store : D.store[j][field] = value}}

\* list_products looking at category before name
list_products_category_first(D, args) ==
    LET name == args_get(args, "name")
        category_str == args_get(args, "category")
        available_str == args_get(args, "available")
        rows ==
            IF Truthy(category_str)
            THEN IF upper(category_str.s) \in CategoryNames
                 THEN filter_by(D, "category", JEnum(upper(category_str.s)))
                 ELSE filter_by(D, "category", None)
            ELSE IF Truthy(name) THEN filter_by(D, "name", name)
            ELSE IF Truthy(available_str)
            THEN filter_by(D, "available",
                     JBool(lower(available_str.s) \in {"true", "1", "yes"}))
            ELSE all(D)
    IN Result(D, ListResponse(200, {serialize(p) : p \in rows}), Product)

\* list_products testing available_str without lower()
list_products_no_lower(D, args) ==
    LET name == args_get(args, "name")
        category_str == args_get(args, "category")
        available_str == args_get(args, "available")
        rows ==
            IF Truthy(name) THEN filter_by(D, "name", name)
            ELSE IF Truthy(category_str)
            THEN IF upper(category_str.s) \in CategoryNames
                 THEN filter_by(D, "category", JEnum(upper(category_str.s)))
                 ELSE filter_by(D, "category", None)
            ELSE IF Truthy(available_str)
            THEN filter_by(D, "available",
                     JBool(available_str.s \in {"true", "1", "yes"}))
            ELSE all(D)
    IN Result(D, ListResponse(200, {serialize(p) : p \in rows}), Product)

\* GET /products
list_products(D, args) ==
    LET name == args_get(args, "name")
        category_str == args_get(args, "category")
        available_str == args_get(args, "available")
        rows ==
            IF Truthy(name) THEN filter_by(D, "name", name)
            ELSE IF Truthy(category_str)
            THEN IF upper(category_str.s) \in CategoryNames
                 THEN filter_by(D, "category", JEnum(upper(category_str.s)))
                 ELSE filter_by(D, "category", None)
            ELSE IF Truthy(available_str)
            THEN filter_by(D, "available",
                     JBool(lower(available_str.s) \in {"true", "1", "yes"}))
            ELSE all(D)
    IN Result(D, ListResponse(200, {serialize(p) : p \in rows}), Product)

\* the characters of the strings that occur as product names
Chars(x) ==
    CASE x = "" -> <<>>
      [] x = "Hat" -> <<"H", "a", "t">>
      [] x = "hat" -> <<"h", "a", "t">>
      [] x = "at" -> <<"a", "t">>
      [] x = "Shirt" -> <<"S", "h", "i", "r", "t">>
      [] x = "Fedora" -> <<"F", "e", "d", "o", "r", "a">>

\* case folding of one character
LowerChar(c) ==
    CASE c = "H" -> "h"
      [] c = "S" -> "s"
      [] c = "F" -> "f"
      [] OTHER -> c

LowerChars(cs) == [i \in 1 .. Len(cs) |-> LowerChar(cs[i])]

\* hay LIKE '%needle%' (needle without wildcards)
Like(hay, needle) ==
    \E k \in 0 .. (Len(hay) - Len(needle)) :
        SubSeq(hay, k + 1, k + Len(needle)) = needle

\* column.ilike(f"%{name}%")
ilike(value, name) ==
    Like(LowerChars(Chars(value)), LowerChars(Chars(name)))

\* find_by_name with like() in place of ilike()
find_by_name_like(D, name) ==
    LET rows == {D.store[i] :
                    i \in {j \in DOMAIN D.store :
                              Like(Chars(D.store[j].name.s), Chars(name))}}
    IN Result(D, ListResponse(0, rows), Product)

\* Product.find_by_name: the rows it returns
find_by_name(D, name) ==
    LET rows == {D.store[i] :
                    i \in {j \in DOMAIN D.store :
                              ilike(D.store[j].name.s, name)}}
    IN Result(D, ListResponse(0, rows), Product)

\* Product.create on a transient product
create(D, self) ==
    LET D2 == commit(add(D, self))
    IN Result(D2, NoContent, D2.store[D2.nextId - 1])

(***************************************************************************)
(* Inputs                                                                  *)
(***************************************************************************)
Ids == 0 .. MaxProducts

Hat ==
    [k \in Fields |->
        CASE k = "name" -> JStr("Hat")
          [] k = "description" -> JStr("A red hat")
          [] k = "category" -> JStr("Food")
          [] k = "available" -> JBool(FALSE)
          [] k = "price" -> JNum(10)]

Shirt ==
    [k \in Fields |->
        CASE k = "name" -> JStr("Shirt")
          [] k = "description" -> JStr("")
          [] k = "category" -> JStr("BOOKS")
          [] k = "available" -> JBool(TRUE)
          [] k = "price" -> JStr("25")]

\* payloads deserialize accepts
ValidMaps ==
    {Hat, Shirt,
     DelKey(DelKey(Shirt, "description"), "available"),
     SetKey(Hat, "category", JStr("food")),
     SetKey(Shirt, "id", JNum(0)),
     SetKey(Hat, "name", JStr(""))}

BadPrices == {JStr("abc"), None}
BadCategories == {JStr("Toys"), JNum(5)}

\* payloads with one defect
DefectMaps ==
    {DelKey(Hat, k) : k \in {"name", "category", "price"}}
    \cup {SetKey(Hat, "price", v) : v \in BadPrices}
    \cup {SetKey(Hat, "category", v) : v \in BadCategories}

Bodies == {Dict(m) : m \in ValidMaps \cup DefectMaps} \cup {NotDict(JNum(123))}

\* requests without the JSON content type carry a valid body, a defective
\* body or a body that is no mapping
OtherBodies == {Dict(Hat), Dict(DelKey(Hat, "name")), NotDict(JNum(123))}

HeadersAndBodies ==
    ({JsonHeaders} \X Bodies) \cup ({NoHeaders, TextHeaders, CharsetHeaders} \X OtherBodies)

\* transient products, as the tests construct them
TransientProducts ==
    {[id |-> None, name |-> JStr(nm), description |-> JStr("A red hat"),
      category |-> JEnum(c), available |-> JBool(a), price |-> JNum(10)] :
        nm \in {"Fedora"}, c \in {"CLOTHING"}, a \in BOOLEAN}

\* a query string: the parameters given, each with its (string) value
Query(name, category, available) ==
    [k \in {x \in {"name", "category", "available"} :
                \/ (x = "name" /\ name # "-")
                \/ (x = "category" /\ category # "-")
                \/ (x = "available" /\ available # "-")} |->
        JStr(CASE k = "name" -> name
               [] k = "category" -> category
               [] k = "available" -> available)]

\* query strings of GET /products ("-" stands for a parameter not given)
QueryArgs ==
    {Query("-", "-", "-"),
     Query("Hat", "-", "-"),
     Query("Hat", "books", "true"),
     Query("", "-", "-"),
     Query("", "books", "-"),
     Query("-", "food", "-"),
     Query("-", "Toys", "-"),
     Query("-", "BOOKS", "false"),
     Query("-", "", "true"),
     Query("-", "-", "True"),
     Query("-", "-", "YES"),
     Query("-", "-", "1"),
     Query("-", "-", "false"),
     Query("-", "-", "no"),
     Query("-", "-", "")}

\* Product.update: commit whatever the session holds for the object
update(D, self) == Result(commit(D), NoContent, self)

\* names looked up with find_by_name
FindNames == {"Hat", "hat", "at", "", "Fedora"}

(***************************************************************************)
(* Actions: one per request, from dispatch to the end of the request       *)
(***************************************************************************)
NoBody == NotDict(None)

\* the requests that are served concurrently
Reqs == {1, 2}

\* a request that has not arrived
NoRequest ==
    [pc |-> "idle", id |-> -1, headers |-> NoHeaders, body |-> NoBody,
     loaded |-> Product, obj |-> Product, resp |-> NoContent]

\* payloads of the concurrent PUT requests
PutMaps ==
    {Hat, Shirt, SetKey(Hat, "name", JStr("Fedora")),
     SetKey(Hat, "price", JNum(25))}

Request(op, id, headers, body, arg, r) ==
    LET D2 == shutdown_session(r.D)
    IN /\ reqs' = reqs
       /\ store' = D2.store
       /\ nextId' = D2.nextId
       /\ session' = D2.session
       /\ last' = [op |-> op, id |-> id, headers |-> headers, body |-> body,
                   arg |-> arg, resp |-> r.resp, entity |-> r.entity]

PostProducts ==
    \E hb \in HeadersAndBodies :
        /\ nextId <= MaxProducts
        /\ Request("POST", -1, hb[1], hb[2], Product,
                   create_products(DB, hb[1], hb[2]))

GetProducts ==
    \E id \in Ids :
        Request("GET", id, NoHeaders, NoBody, Product,
                get_products(DB, id))

PutProducts ==
    \E id \in Ids, hb \in HeadersAndBodies :
        Request("PUT", id, hb[1], hb[2], Product,
                update_products(DB, id, hb[1], hb[2]))

\* (the query string is recorded as the request's mapping)
ListProducts ==
    \E args \in QueryArgs :
        Request("LIST", -1, NoHeaders, Dict(args), Product,
                list_products(DB, args))

DeleteProducts ==
    \E id \in Ids :
        Request("DELETE", id, NoHeaders, NoBody, Product,
                delete_products(DB, id))

ProductCreate ==
    \E p \in TransientProducts :
        /\ nextId <= MaxProducts
        /\ Request("create", -1, NoHeaders, NoBody, p, create(DB, p))

\* (the name looked up is recorded as the call's mapping)
ProductFindByName ==
    \E n \in FindNames :
        Request("find_by_name", -1, NoHeaders,
                Dict([k \in {"name"} |-> JStr(n)]), Product,
                find_by_name(DB, n))

\* the caller assigns the fields of an object that was persisted with this
\* id and calls update().  While its row exists the object is in the session
\* and the assignments are tracked; after p.delete() the object is detached
\* from the session.
ProductUpdate ==
    \E id \in 1 .. MaxProducts, c \in TransientProducts :
        /\ id < nextId
        /\ LET g == find(DB, id)
               p == [c EXCEPT !.id = JNum(id)]
           IN IF g.found
              THEN Request("update", id, NoHeaders, NoBody, p,
                           update(touch(g.D, id, p), p))
              ELSE Request("update", id, NoHeaders, NoBody, p,
                           update(DB, p))

Init ==
    /\ reqs = [r \in Reqs |-> NoRequest]
    /\ store = EmptyRows
    /\ nextId = 1
    /\ session = EmptySession
    /\ last = [op |-> "none", id |-> -1, headers |-> NoHeaders,
               body |-> NoBody, arg |-> Product, resp |-> NoContent, entity |-> Product]

Next ==
    \/ PostProducts
    \/ GetProducts
    \/ ListProducts
    \/ PutProducts
    \/ DeleteProducts
    \/ ProductCreate
    \/ ProductFindByName
    \/ ProductUpdate

Spec == Init /\ [][Next]_vars

(***************************************************************************)
(* PUT /products/<id> served in steps: every request has its own session,  *)
(* and the steps of different requests interleave                          *)
(***************************************************************************)
\* the row after the UPDATE the flush emits for an object: the statement
\* sets only the columns whose value differs from the value loaded
flush(row, loaded, obj) ==
    [f \in DOMAIN row |-> IF obj[f] # loaded[f] THEN obj[f] ELSE row[f]]

Finish(r, resp) == reqs' = [reqs EXCEPT ![r].pc = "done", ![r].resp = resp]

\* check_content_type("application/json"); product = Product.find(id)
PutLookup(r) ==
    /\ reqs[r].pc = "lookup"
    /\ IF ~check_content_type(reqs[r].headers, "application/json")
       THEN Finish(r, mediatype_not_supported(
                          ContentTypeMessage("application/json")))
       ELSE IF reqs[r].id \notin DOMAIN store
       THEN Finish(r, not_found(NotFoundMessage(reqs[r].id)))
       ELSE reqs' = [reqs EXCEPT ![r].pc = "deserialize",
                                 ![r].loaded = store[reqs[r].id],
                                 ![r].obj = store[reqs[r].id]]
    /\ UNCHANGED <<store, nextId, session, last>>

\* data = request.get_json(); product.deserialize(data)
PutDeserialize(r) ==
    /\ reqs[r].pc = "deserialize"
    /\ LET d == deserialize(reqs[r].obj, reqs[r].body)
       IN IF d.exc # "none"
          THEN Finish(r, handle_exception(d))
          ELSE reqs' = [reqs EXCEPT ![r].pc = "commit", ![r].obj = d.obj]
    /\ UNCHANGED <<store, nextId, session, last>>

\* db.session.commit(); return product.serialize(), 200
PutCommit(r) ==
    /\ reqs[r].pc = "commit"
    /\ LET id == reqs[r].id
       IN IF id \in DOMAIN store
          THEN /\ store' = [store EXCEPT
                               ![id] = flush(@, reqs[r].loaded, reqs[r].obj)]
               /\ Finish(r, ProductResponse(200, serialize(store'[id]),
                                            NoLocation))
          ELSE /\ store' = store
               /\ Finish(r, internal_server_error(<<"StaleDataError">>))
    /\ UNCHANGED <<nextId, session, last>>

\* one product is stored and two PUT requests for its id have arrived
InitConc ==
    /\ \E m \in {Hat, Shirt} :
           store = [i \in {1} |->
                      [deserialize(Product, Dict(m)).obj
                          EXCEPT !.id = JNum(1)]]
    /\ nextId = 2
    /\ session = EmptySession
    /\ last = [op |-> "none", id |-> -1, headers |-> NoHeaders,
               body |-> NoBody, arg |-> Product, resp |-> NoContent,
               entity |-> Product]
    /\ \E a, b \in PutMaps :
           reqs = [r \in Reqs |->
                     [NoRequest EXCEPT
                         !.pc = "lookup", !.id = 1, !.headers = JsonHeaders,
                         !.body = Dict(IF r = 1 THEN a ELSE b)]]

NextConc ==
    \/ \E r \in Reqs : PutLookup(r)
    \/ \E r \in Reqs : PutDeserialize(r)
    \/ \E r \in Reqs : PutCommit(r)

SpecConc == InitConc /\ [][NextConc]_vars

(***************************************************************************)
(* Vocabulary of the properties                                            *)
(***************************************************************************)
IsJson(headers) ==
    "Content-Type" \in DOMAIN headers
    /\ headers["Content-Type"] = "application/json"

IsNumeric(v) == v.t = "num" \/ (v.t = "str" /\ v.s \in NumericStrings)

NumberOf(v) == IF v.t = "num" THEN v.n ELSE StrToNum(v.s)

IsLabel(v) == v.t = "str" /\ upper(v.s) \in CategoryNames

\* a payload with the required keys, a category label of the enumeration
\* (in any letter case) and a price that is a number or a numeral
ValidPayload(body) ==
    /\ body.isdict
    /\ {"name", "category", "price"} \subseteq DOMAIN body.m
    /\ IsLabel(body.m["category"])
    /\ IsNumeric(body.m["price"])

\* the product body p carries the values of payload m: name as posted,
\* description and available as posted or their defaults, the price as a
\* number, the category as the label of the same enumerated value
PostedEquals(p, m) ==
    /\ p.name = m["name"]
    /\ p.description =
         (IF "description" \in DOMAIN m THEN m["description"] ELSE JStr(""))
    /\ p.available =
         (IF "available" \in DOMAIN m THEN m["available"] ELSE JBool(TRUE))
    /\ p.price.t = "num" /\ p.price.n = NumberOf(m["price"])
    /\ p.category.t = "str" /\ upper(p.category.s) = upper(m["category"].s)

SameFields(p, q) == \A f \in Fields : p[f] = q[f]

ContainsNotFound(msg) ==
    \E i \in 1 .. (Len(msg) - 1) : msg[i] = "not" /\ msg[i + 1] = "found"

C2_CreateAssignsIdAndIsVisible ==
    [][last'.op = "create"
        => LET p == last'.entity
               f == find(DB', p.id.n)
           IN /\ last'.arg.id = None
              /\ p.id # None
              /\ p.id.t = "num"
              /\ Cardinality(all(DB')) = Cardinality(all(DB)) + 1
              /\ f.found
              /\ f.obj.id = p.id
              /\ SameFields(f.obj, last'.arg)]_vars

C2_Witness ==
    /\ last.op = "create"
    /\ last.entity.id.t = "num"
    /\ Cardinality(DOMAIN store) > 1
    /\ last.arg.available = JBool(FALSE)

\* C3: in every state reached by POST, PUT and DELETE requests, a GET of an
\* id answers 200 with the serialized stored product when the id is in the
\* store and 404 with a message containing "not found" when it is not; id 0
\* is never in the store.
C3_GetFoundOrNotFound ==
    /\ 0 \notin DOMAIN store
    /\ last.op = "GET"
        => IF last.id \in DOMAIN store
           THEN /\ last.resp.status = 200
                /\ last.resp.kind = "product"
                /\ last.resp.product = serialize(store[last.id])
           ELSE /\ last.resp.status = 404
                /\ last.resp.kind = "error"
                /\ last.resp.error = "Not Found"
                /\ ContainsNotFound(last.resp.message)

C3_Witness ==
    /\ last.op = "GET"
    /\ last.resp.status = 404
    /\ last.id >= 1
    /\ last.id < nextId
    /\ store # EmptyRows

\* a mapping with one of the defects of C4
Defective(body) ==
    /\ body.isdict
    /\ \/ "name" \notin DOMAIN body.m
       \/ "category" \notin DOMAIN body.m
       \/ "price" \notin DOMAIN body.m
       \/ ~IsNumeric(body.m["price"])
       \/ (body.m["category"].t = "str" /\ ~IsLabel(body.m["category"]))

\* C4: a JSON POST whose body lacks name, category or price, carries a
\* non-numeric price, or carries a category label of no enumerated value is
\* answered 400 with the Bad Request envelope and creates no product.
C4_DefectivePostIs400 ==
    [][(last'.op = "POST" /\ IsJson(last'.headers) /\ Defective(last'.body))
        => /\ last'.resp.status = 400
           /\ last'.resp.kind = "error"
           /\ last'.resp.error = "Bad Request"
           /\ store' = store]_vars

\* C5: deserialize fails with DataValidationError only, for every malformed
\* input (no mapping, a missing required key, a category that is no label
\* of the enumeration, a price that is no number), so a JSON POST, or a JSON
\* PUT on a stored id, with such a body is answered 400, and none is ever
\* answered 500.
C5_NeverInternalError ==
    (/\ last.op \in {"POST", "PUT"}
     /\ IsJson(last.headers)
     /\ (last.op = "PUT" => last.id \in DOMAIN store))
        => /\ last.resp.status # 500
           /\ ~ValidPayload(last.body) => last.resp.status = 400

\* C6: a POST or PUT whose Content-Type header is missing or is not
\* application/json is answered 415 whatever the body is and, for PUT,
\* whether or not the id exists; the store is not changed.
C6_WrongContentTypeIs415 ==
    [][(last'.op \in {"POST", "PUT"} /\ ~IsJson(last'.headers))
        => /\ last'.resp.status = 415
           /\ last'.resp.kind = "error"
           /\ store' = store
           /\ \A id \in Ids :
                get_products(DB', id).resp = get_products(DB, id).resp]_vars

C6_Witness ==
    /\ last.op = "PUT"
    /\ last.headers = NoHeaders
    /\ last.id \notin DOMAIN store
    /\ last.resp.status = 415
    /\ ~ValidPayload(last.body)

C8_DeleteIsIdempotent ==
    [][last'.op = "DELETE"
        => LET again == delete_products(DB', last'.id)
           IN /\ last'.resp.status = 204
              /\ last'.resp.kind = "empty"
              /\ get_products(DB', last'.id).resp.status = 404
              /\ DOMAIN store' = (DOMAIN store) \ {last'.id}
              /\ \A j \in DOMAIN store' : store'[j] = store[j]
              /\ again.resp.status = 204
              /\ again.resp.kind = "empty"
              /\ shutdown_session(again.D).store = store']_vars

C8_Witness ==
    /\ last.op = "DELETE"
    /\ last.resp.status = 204
    /\ last.entity.id = JNum(last.id)
    /\ store # EmptyRows

\* C9: a POST or PUT answered 400, 404 or 415 leaves the store as it was: no
\* product is added, no field of a stored product changes, every GET answers
\* as before, and nothing of the rejected request is left pending for a
\* later commit.
C9_ErrorLeavesStore ==
    [][(last'.op \in {"POST", "PUT"} /\ last'.resp.status \in {400, 404, 415})
        => /\ store' = store
           /\ session' = EmptySession
           /\ \A id \in Ids :
                get_products(DB', id).resp = get_products(DB, id).resp]_vars

C9_Witness ==
    /\ last.op = "PUT"
    /\ last.resp.status = 400
    /\ last.id \in DOMAIN store
    /\ last.entity.name # store[last.id].name
    /\ session = EmptySession

\* C10: when deserialize fails, the entity keeps the name, description,
\* category, available and price it had before the call.
C10_NoPartialMutation ==
    (last.op \in {"POST", "PUT"} /\ last.resp.status \in {400, 500})
        => SameFields(last.entity,
                      IF last.op = "PUT" THEN store[last.id] ELSE Product)

\* a valid payload whose values have the types of the columns
WellTyped(body) ==
    /\ ValidPayload(body)
    /\ body.m["name"].t = "str"
    /\ body.m["price"].t = "num"
    /\ "description" \in DOMAIN body.m => body.m["description"].t = "str"
    /\ "available" \in DOMAIN body.m => body.m["available"].t = "bool"

\* C11: for every valid, well-typed mapping, deserialize followed by
\* serialize gives back its name, description, available and price and the
\* label of the same category value; for every product, deserializing its
\* serialize() output into a fresh Product gives equal name, description,
\* price, available and category; deserialize never sets the id.
C11_RoundTrip ==
    /\ WellTyped(last.body)
        => LET r == deserialize(Product, last.body)
               out == serialize(r.obj)
           IN /\ r.exc = "none"
              /\ r.obj.id = None
              /\ out.name = last.body.m["name"]
              /\ out.price = last.body.m["price"]
              /\ "description" \in DOMAIN last.body.m
                    => out.description = last.body.m["description"]
              /\ "available" \in DOMAIN last.body.m
                    => out.available = last.body.m["available"]
              /\ upper(out.category.s) = upper(last.body.m["category"].s)
    /\ \A i \in DOMAIN store :
          LET r == deserialize(Product, Dict(serialize(store[i])))
          IN /\ r.exc = "none"
             /\ r.obj.id = None
             /\ SameFields(r.obj, store[i])

C11_Witness ==
    /\ WellTyped(last.body)
    /\ last.body.m["category"].s = "food"
    /\ \E i \in DOMAIN store : store[i].category = JEnum("CLOTHING")
    /\ \E i \in DOMAIN store : store[i].category = JEnum("BOOKS")

SerializedKeys ==
    {"id", "name", "description", "category", "available", "price"}

\* C12: serialize() returns a mapping with exactly the keys id, name,
\* description, category, available and price, each equal to the entity's
\* field, the category entry being the name of the Category member; the
\* category of every product body the API returns is such a name too.
C12_SerializeCategoryName ==
    /\ \A i \in DOMAIN store :
          LET data == serialize(store[i])
          IN /\ DOMAIN data = SerializedKeys
             /\ data.id = store[i].id
             /\ \A f \in Fields \ {"category"} : data[f] = store[i][f]
             /\ data.category = JStr(store[i].category.s)
    /\ (last.resp.kind = "product" /\ last.resp.status \in {200, 201})
          => last.resp.product.category.s \in CategoryNames

\* the parameter is given with a non-empty value
HasValue(args, k) == k \in DOMAIN args /\ args[k].s # ""

Bodies_of(rows) == {serialize(p) : p \in rows}

Rows == {store[i] : i \in DOMAIN store}

NameMatches(args) == {p \in Rows : p.name = args["name"]}

CategoryMatches(args) ==
    {p \in Rows : p.category.s = upper(args["category"].s)}

\* parse(v) of the available parameter
ParseAvailable(v) ==
    v \in {"true", "True", "TRUE", "1", "yes", "Yes", "YES"}

AvailableMatches(args) ==
    {p \in Rows : p.available = JBool(ParseAvailable(args["available"].s))}

\* C13 as stated: GET /products answers 200 with a list; when a name
\* parameter is present the list is the products with that name, whatever
\* category and available are; when name is absent and category is present,
\* available is ignored; with no parameter the list is every product.
C13_FirstPresentFilter ==
    last.op = "LIST"
        => LET args == last.body.m
               got == last.resp.items
           IN /\ last.resp.status = 200
              /\ last.resp.kind = "list"
              /\ "name" \in DOMAIN args => got = Bodies_of(NameMatches(args))
              /\ ("name" \notin DOMAIN args /\ "category" \in DOMAIN args)
                    => got = Bodies_of(CategoryMatches(args))
              /\ DOMAIN args = {} => got = Bodies_of(Rows)

\* C13 amended: the same, a parameter counting as present when it is given
\* with a non-empty value: the first of name, category, available that has
\* a value is the one filter applied, and with none the list is every
\* product.
C13_FirstNonEmptyFilter ==
    last.op = "LIST"
        => LET args == last.body.m
               got == last.resp.items
           IN /\ last.resp.status = 200
              /\ last.resp.kind = "list"
              /\ HasValue(args, "name") => got = Bodies_of(NameMatches(args))
              /\ (~HasValue(args, "name") /\ HasValue(args, "category"))
                    => got = Bodies_of(CategoryMatches(args))
              /\ (\A k \in DOMAIN args : ~HasValue(args, k))
                    => got = Bodies_of(Rows)

C13_Witness ==
    /\ last.op = "LIST"
    /\ DOMAIN last.body.m = {"name", "category", "available"}
    /\ Cardinality(last.resp.items) = 1
    /\ Cardinality(DOMAIN store) = 2
    /\ \E p \in last.resp.items :
          upper(p.category.s) # upper(last.body.m["category"].s)

\* C14 as stated: with only the available parameter, the list is the
\* products whose available flag equals parse(v), for every value v.
C14_AvailableFilter ==
    (last.op = "LIST" /\ DOMAIN last.body.m = {"available"})
        => last.resp.items = Bodies_of(AvailableMatches(last.body.m))

\* C14 amended: with only the available parameter, given with a non-empty
\* value v, the list is the products whose available flag equals parse(v).
C14_NonEmptyAvailableFilter ==
    (/\ last.op = "LIST"
     /\ DOMAIN last.body.m = {"available"}
     /\ HasValue(last.body.m, "available"))
        => /\ last.resp.status = 200
           /\ last.resp.items = Bodies_of(AvailableMatches(last.body.m))
           /\ \A p \in last.resp.items :
                 p.available =
                    JBool(ParseAvailable(last.body.m["available"].s))

C14_Witness ==
    /\ last.op = "LIST"
    /\ DOMAIN last.body.m = {"available"}
    /\ last.body.m["available"].s = "YES"
    /\ Cardinality(last.resp.items) = 1
    /\ Cardinality(DOMAIN store) = 2

\* name n occurs in stored name x when letter case is ignored
OccursIn(n, x) ==
    \/ n = ""
    \/ (x = "Hat" /\ n \in {"Hat", "hat", "at"})
    \/ (x = "Fedora" /\ n = "Fedora")

\* C15 as stated: find_by_name(n) returns exactly the stored products whose
\* name equals n.
C15_FindByNameExact ==
    last.op = "find_by_name"
        => last.resp.items = {p \in Rows : p.name = last.body.m["name"]}

\* C15 amended: find_by_name(n) returns exactly the stored products whose
\* name contains n, letter case ignored; the products named n are among
\* them.
C15_FindByNameContains ==
    last.op = "find_by_name"
        => LET n == last.body.m["name"]
           IN /\ last.resp.items = {p \in Rows : OccursIn(n.s, p.name.s)}
              /\ {p \in Rows : p.name = n} \subseteq last.resp.items

C15_Witness ==
    /\ last.op = "find_by_name"
    /\ last.body.m["name"].s = "hat"
    /\ Cardinality(last.resp.items) = 1
    /\ Cardinality(DOMAIN store) = 2

\* C16: update() persists the changed fields of a product whose row exists,
\* and fails with a not-found condition when the row no longer exists.
C16_UpdatePersistsOrNotFound ==
    last.op = "update"
        => IF last.id \in DOMAIN store
           THEN /\ find(DB, last.id).found
                /\ find(DB, last.id).obj = last.arg
           ELSE /\ last.resp.kind = "error"
                /\ last.resp.status = 404

\* a response that reports the product stored under id i
Reports(resp, i) ==
    /\ resp.kind = "product"
    /\ resp.product.id = JNum(i)

\* C17: the ids of the stored products are pairwise distinct; a new product
\* gets the next value of the store's sequence whatever the body says, and a
\* stored product keeps its id through every request until it is deleted.
C17_IdAssignedByStore ==
    /\ [](\A i, j \in DOMAIN store :
              /\ store[i].id = JNum(i)
              /\ (i # j => store[i].id # store[j].id))
    /\ [][/\ \A i \in (DOMAIN store) \cap (DOMAIN store') :
                 store'[i].id = store[i].id
          /\ \A i \in (DOMAIN store') \ (DOMAIN store) :
                 /\ i = nextId
                 /\ nextId' = nextId + 1
                 /\ store'[i].id = JNum(nextId)
          /\ (last'.op = "POST" /\ last'.resp.status = 201)
                 => Reports(last'.resp, nextId)
          /\ (last'.op = "PUT" /\ last'.resp.status = 200)
                 => Reports(last'.resp, last'.id)]_vars

C17_Witness ==
    /\ last.op = "PUT"
    /\ last.resp.status = 200
    /\ "id" \in DOMAIN last.body.m
    /\ last.body.m["id"] # JNum(last.id)
    /\ store[last.id].name = last.body.m["name"]
    /\ Cardinality(DOMAIN store) = 2

\* C18: every stored product has a non-empty name; a POST or PUT whose name
\* is the empty string is rejected, never stored.
C18_NameNonEmpty ==
    /\ \A i \in DOMAIN store : store[i].name # JStr("")
    /\ (/\ last.op \in {"POST", "PUT"}
        /\ IsJson(last.headers)
        /\ last.body.isdict
        /\ "name" \in DOMAIN last.body.m
        /\ last.body.m["name"] = JStr(""))
           => last.resp.status \notin {200, 201}

\* C19: after two concurrent PUT requests with valid payloads for the same
\* id have both completed, the stored product equals the whole payload of
\* one of them; it is never a mixture of the two.
C19_NoMixture ==
    (\A r \in Reqs : reqs[r].pc = "done" /\ reqs[r].resp.status = 200)
        => \E r \in Reqs :
               /\ reqs[r].id \in DOMAIN store
               /\ PostedEquals(serialize(store[reqs[r].id]), reqs[r].body.m)

====
